---- MODULE Spec2Model ----
(***************************************************************************)
(* Model of the MCP query tool: the query-term highlighter                 *)
(* (utils/text_highlighting.py), the retrieval client (mcp_client.py) and  *)
(* the request handlers (app.py).                                          *)
(*                                                                         *)
(* A string is a sequence of characters; a character is a one-character    *)
(* TLA+ string, except LDQUO, which stands for one non-ASCII character.    *)
(***************************************************************************)
EXTENDS Integers, Sequences, FiniteSets, TLC

VARIABLES
    \* the highlighter: the arguments, the function called and its outcome
    text, query, call, ret, words, spans, raised,
    \* a POST /query request: where the handler is, its parameters, how the
    \* tool call ended, the records to display, str(e) of the exception
    \* caught, the contents given to the highlighter, the cards rendered and
    \* the kind of response
    pc, question, top_k, tool, reply, fetched, results, error, highlighted,
    cards, response,
    \* the application: the process environment, how far the import of the
    \* modules has come, the singleton mcp_client (no element while the name
    \* is unbound, else the one instance) and the exception nothing caught
    environ, app, mcp_client, fault,
    \* a GET /health request: where the handler is, how the request to the
    \* server's health endpoint ended, what health_check did with it, and the
    \* last response of the handler
    hpc, probe, checked, health_response

hlvars == <<text, query, call, ret, words, spans, raised>>

webvars ==
    <<pc, question, top_k, tool, reply, fetched, results, error, highlighted,
      cards, response>>

appvars == <<environ, app, mcp_client, fault>>

healthvars == <<hpc, probe, checked, health_response>>

vars == <<hlvars, webvars, appvars, healthvars>>

(***************************************************************************)
(* Bounds of the model.                                                    *)
(***************************************************************************)
\* Longest query, in characters, given to extract_query_words alone.
MaxExtractLen == 4
\* Longest text, in atoms of TextAtoms, given to the highlighters.
MaxTextLen == 2
\* Most words of QueryWords in a query given to the highlighters.
MaxQueryWords == 2
\* Largest top_k of a request (the form allows 1 to 10).
MaxTopK == 4
\* Most entries in the 'chunks' list of the server's reply.
MaxChunks == 3

(***************************************************************************)
(* Characters.                                                             *)
(***************************************************************************)
\* U+201C LEFT DOUBLE QUOTATION MARK: not in string.punctuation, not
\* whitespace, and not matched by \w.
LDQUO == "U+201C"

\* U+0060 GRAVE ACCENT, a member of string.punctuation.
GRAVE == "U+0060"

ascii_lowercase ==
    <<"a", "b", "c", "d", "e", "f", "g", "h", "i", "j", "k", "l", "m",
      "n", "o", "p", "q", "r", "s", "t", "u", "v", "w", "x", "y", "z">>

ascii_uppercase ==
    <<"A", "B", "C", "D", "E", "F", "G", "H", "I", "J", "K", "L", "M",
      "N", "O", "P", "Q", "R", "S", "T", "U", "V", "W", "X", "Y", "Z">>

digits == {"0", "1", "2", "3", "4", "5", "6", "7", "8", "9"}

\* string.punctuation
punctuation ==
    {"!", "\"", "#", "$", "%", "&", "'", "(", ")", "*", "+", ",", "-", ".",
     "/", ":", ";", "<", "=", ">", "?", "@", "[", "\\", "]", "^", "_", GRAVE,
     "{", "|", "}", "~"}

\* The characters str.split() treats as separators.
whitespace == {" ", "\t", "\n", "\r", "\f"}

Range(s) == {s[i] : i \in DOMAIN s}

\* The characters the pattern \w matches (str patterns).
word_chars == Range(ascii_lowercase) \cup Range(ascii_uppercase) \cup digits \cup {"_"}

IsWordChar(c) == c \in word_chars

\* The lowercase letter of every uppercase letter.
lower_map ==
    [c \in Range(ascii_uppercase) |->
        ascii_lowercase[CHOOSE i \in DOMAIN ascii_uppercase : ascii_uppercase[i] = c]]

\* str.lower() on one character.
lower_char(c) == IF c \in DOMAIN lower_map THEN lower_map[c] ELSE c

\* str.lower()
lower(s) == [i \in DOMAIN s |-> lower_char(s[i])]

\* str.replace(old, new) for one-character old and new.
replace(s, old, new) == [i \in DOMAIN s |-> IF s[i] = old THEN new ELSE s[i]]

RECURSIVE split_from(_, _, _, _)
split_from(s, i, cur, acc) ==
    IF i > Len(s)
    THEN IF cur # <<>> THEN Append(acc, cur) ELSE acc
    ELSE IF s[i] \in whitespace
         THEN split_from(s, i + 1, <<>>, IF cur # <<>> THEN Append(acc, cur) ELSE acc)
         ELSE split_from(s, i + 1, Append(cur, s[i]), acc)

\* str.split() with no argument: runs of whitespace separate the words
\* and produce no empty word.
split(s) == split_from(s, 1, <<>>, <<>>)

RECURSIVE lstrip(_, _)
lstrip(s, chars) ==
    IF s # <<>> /\ Head(s) \in chars THEN lstrip(Tail(s), chars) ELSE s

RECURSIVE rstrip(_, _)
rstrip(s, chars) ==
    IF s # <<>> /\ s[Len(s)] \in chars
    THEN rstrip(SubSeq(s, 1, Len(s) - 1), chars)
    ELSE s

\* str.strip(chars)
strip(s, chars) == rstrip(lstrip(s, chars), chars)

RECURSIVE Flatten(_)
Flatten(ss) == IF ss = <<>> THEN <<>> ELSE Head(ss) \o Flatten(Tail(ss))

(***************************************************************************)
(* extract_query_words                                                     *)
(***************************************************************************)
stop_words == {
    <<"i">>, <<"t","h","e">>, <<"i","s">>, <<"a","r","e">>, <<"w","a","s">>,
    <<"w","e","r","e">>, <<"a">>, <<"a","n">>, <<"a","n","d">>, <<"o","r">>,
    <<"b","u","t">>, <<"i","n">>, <<"o","n">>, <<"a","t">>, <<"t","o">>, <<"f","o","r">>,
    <<"o","f">>, <<"w","i","t","h">>, <<"b","y">>, <<"w","h","a","t">>, <<"h","o","w">>,
    <<"w","h","y">>, <<"w","h","e","n">>, <<"w","h","e","r","e">>, <<"w","h","o">>,
    <<"w","h","o","m">>, <<"w","h","o","s","e">>, <<"w","h","i","c","h">>,
    <<"t","h","a","t">>, <<"t","h","i","s">>, <<"t","h","e","s","e">>,
    <<"t","h","o","s","e">>, <<"t","e","l","l">>, <<"m","e">>, <<"a","b","o","u","t">>,
    <<"s","h","o","u","l","d">>, <<"w","e">>, <<"u","s","e">> }

\* clean_word without the call of lower().
clean_word_not_lowered(word) == strip(word, punctuation)

\* word.strip(string.punctuation).lower()
clean_word(word) == lower(strip(word, punctuation))

RECURSIVE clean_words_of(_)
clean_words_of(raw) ==
    IF raw = <<>> THEN <<>>
    ELSE LET clean == clean_word(Head(raw))
         IN  (IF clean # <<>> THEN <<clean>> ELSE <<>>) \o clean_words_of(Tail(raw))

\* The list `words` of extract_query_words, before the stop words are removed.
clean_words(q) == clean_words_of(split(replace(q, "-", " ")))

\* filtered_words with no word removed.
filtered_words_all_kept(ws) == ws

\* [word for word in words if word not in stop_words]
filtered_words(ws) == SelectSeq(ws, LAMBDA w : w \notin stop_words)

extract_query_words(q) ==
    IF q = <<>> THEN <<>> ELSE filtered_words(clean_words(q))

(***************************************************************************)
(* The fragment of the re module the highlighters use: re.escape, the      *)
(* pattern (\bw1\b|\bw2\b|...), and re.sub with re.IGNORECASE.             *)
(***************************************************************************)
\* The characters re.escape puts a backslash before.
re_special_chars ==
    {"(", ")", "[", "]", "{", "}", "?", "*", "+", "-", "|", "^", "$", "\\",
     ".", "&", "~", "#", " ", "\t", "\n", "\r", "\f"}

\* re_escape leaving every character as it is.
re_escape_nothing(word) == word

RECURSIVE re_escape(_)
re_escape(word) ==
    IF word = <<>> THEN <<>>
    ELSE (IF Head(word) \in re_special_chars
          THEN <<"\\", Head(word)>>
          ELSE <<Head(word)>>) \o re_escape(Tail(word))

\* f"\\b{escaped_word}\\b"
pattern_part(word) == <<"\\", "b">> \o re_escape(word) \o <<"\\", "b">>

RECURSIVE pattern_parts(_)
pattern_parts(query_words) ==
    IF query_words = <<>> THEN <<>>
    ELSE <<pattern_part(Head(query_words))>> \o pattern_parts(Tail(query_words))

RECURSIVE join(_, _)
join(parts, sep) ==
    IF parts = <<>> THEN <<>>
    ELSE IF Len(parts) = 1 THEN Head(parts)
    ELSE Head(parts) \o <<sep>> \o join(Tail(parts), sep)

\* f"({'|'.join(pattern_parts)})"
pattern(query_words) == <<"(">> \o join(pattern_parts(query_words), "|") \o <<")">>

\* The pattern source read as regex tokens: \b is the word-boundary
\* assertion, a backslash before any other character makes it a literal,
\* an unescaped . ( ) | keep their regex meaning, anything else is a literal.
RECURSIVE re_tokens(_, _)
re_tokens(p, i) ==
    IF i > Len(p) THEN <<>>
    ELSE IF p[i] = "\\" /\ i < Len(p)
         THEN (IF p[i + 1] = "b"
               THEN <<[t |-> "boundary", c |-> ""]>>
               ELSE <<[t |-> "lit", c |-> p[i + 1]]>>) \o re_tokens(p, i + 2)
         ELSE (IF p[i] \in {"(", ")", "|"}
               THEN <<[t |-> p[i], c |-> ""]>>
               ELSE IF p[i] = "."
                    THEN <<[t |-> "any", c |-> ""]>>
                    ELSE <<[t |-> "lit", c |-> p[i]]>>) \o re_tokens(p, i + 1)

RECURSIVE split_alternatives(_, _, _)
split_alternatives(toks, cur, acc) ==
    IF toks = <<>> THEN Append(acc, cur)
    ELSE IF Head(toks).t = "|"
         THEN split_alternatives(Tail(toks), <<>>, Append(acc, cur))
         ELSE split_alternatives(Tail(toks), Append(cur, Head(toks)), acc)

\* re.compile of a pattern of the shape ( alternative | ... ): an
\* unescaped parenthesis inside the group is unbalanced, which re rejects
\* with re.error.
re_compile(p) ==
    LET toks  == re_tokens(p, 1)
        inner == SubSeq(toks, 2, Len(toks) - 1)
        ok    == /\ Len(toks) >= 2
                 /\ toks[1].t = "("
                 /\ toks[Len(toks)].t = ")"
                 /\ \A k \in DOMAIN inner : inner[k].t \notin {"(", ")"}
    IN  [ok |-> ok,
         alternatives |-> IF ok THEN split_alternatives(inner, <<>>, <<>>) ELSE <<>>]

\* \b at the position before text[pos]: exactly one of the two characters
\* around it is a word character; a string edge counts as a non-word one.
word_boundary(s, pos) ==
    LET before == pos > 1 /\ IsWordChar(s[pos - 1])
        after  == pos <= Len(s) /\ IsWordChar(s[pos])
    IN  before # after

\* Where a match of the token sequence `toks` that starts before s[pos]
\* ends (the position after its last character), or 0 when there is none.
RECURSIVE match_tokens(_, _, _)
match_tokens(toks, s, pos) ==
    IF toks = <<>> THEN pos
    ELSE LET tok == Head(toks)
         IN  IF tok.t = "boundary"
             THEN IF word_boundary(s, pos) THEN match_tokens(Tail(toks), s, pos) ELSE 0
             ELSE IF pos > Len(s) THEN 0
             ELSE IF tok.t = "any"
                  THEN IF s[pos] # "\n" THEN match_tokens(Tail(toks), s, pos + 1) ELSE 0
                  ELSE IF lower_char(s[pos]) = lower_char(tok.c)   \* re.IGNORECASE
                       THEN match_tokens(Tail(toks), s, pos + 1)
                       ELSE 0

\* The alternatives are tried in order; the first that matches wins.
RECURSIVE match_at(_, _, _)
match_at(alternatives, s, pos) ==
    IF alternatives = <<>> THEN 0
    ELSE LET stop == match_tokens(Head(alternatives), s, pos)
         IN  IF stop # 0 THEN stop ELSE match_at(Tail(alternatives), s, pos)

\* The first position from pos on where some alternative matches, or 0.
next_match(alternatives, s, pos) ==
    LET starts == {p \in pos..Len(s) : match_at(alternatives, s, p) # 0}
    IN  IF starts = {} THEN 0 ELSE CHOOSE p \in starts : \A r \in starts : p <= r

\* The matches re.sub replaces, left to right and non-overlapping, each as
\* [start, stop): a match starts at s[start] and ends before s[stop]. The
\* scan goes on after the end of a match.
RECURSIVE finditer(_, _, _)
finditer(alternatives, s, pos) ==
    LET start == next_match(alternatives, s, pos)
    IN  IF start = 0 THEN <<>>
        ELSE LET stop == match_at(alternatives, s, start)
             IN  <<[start |-> start, stop |-> stop]>>
                 \o finditer(alternatives, s, IF stop > start THEN stop ELSE start + 1)

(***************************************************************************)
(* highlight_query_terms and highlight_query_terms_smart                   *)
(***************************************************************************)
\* The default of the parameter highlight_class.
highlight_class == <<"h", "i", "g", "h", "l", "i", "g", "h", "t">>

open_tag(cls) ==
    <<"<", "m", "a", "r", "k", " ", "c", "l", "a", "s", "s", "=", "\"">>
    \o cls \o <<"\"", ">">>

close_tag == <<"<", "/", "m", "a", "r", "k", ">">>

\* replace_match wrapping the lowercased match, as the query term is.
replace_match_lowered(matched_text, cls) ==
    open_tag(cls) \o lower(matched_text) \o close_tag

\* f'<mark class="{highlight_class}">{matched_text}</mark>'
replace_match(matched_text, cls) == open_tag(cls) \o matched_text \o close_tag

\* re.sub(pattern, replace_match, text): the text between the matches is
\* copied, each match is replaced by replace_match of the matched text.
RECURSIVE re_sub(_, _, _, _)
re_sub(matches, s, pos, cls) ==
    IF matches = <<>> THEN SubSeq(s, pos, Len(s))
    ELSE LET m == Head(matches)
         IN  SubSeq(s, pos, m.start - 1)
             \o replace_match(SubSeq(s, m.start, m.stop - 1), cls)
             \o re_sub(Tail(matches), s, m.stop, cls)

\* The outcome of the body both highlighters share, for the term list
\* query_words: the string returned, the matches replaced, and whether
\* re.sub raised re.error.
highlight_words(s, query_words, cls) ==
    LET compiled == re_compile(pattern(query_words))
        matches  == IF compiled.ok THEN finditer(compiled.alternatives, s, 1) ELSE <<>>
    IN  IF ~compiled.ok
        THEN [ret |-> <<>>, spans |-> <<>>, raised |-> TRUE]
        ELSE [ret |-> re_sub(matches, s, 1, cls), spans |-> matches, raised |-> FALSE]

unchanged(s) == [ret |-> s, spans |-> <<>>, raised |-> FALSE]

highlight_query_terms_smart(s, q, cls) ==
    IF s = <<>> \/ q = <<>> THEN unchanged(s)
    ELSE LET query_words == extract_query_words(q)
         IN  IF query_words = <<>> THEN unchanged(s)
             ELSE highlight_words(s, query_words, cls)

highlight_query_terms(s, q, cls) ==
    IF s = <<>> \/ q = <<>> THEN unchanged(s)
    ELSE LET query_words == extract_query_words(q)
         IN  IF query_words = <<>> THEN unchanged(s)
             ELSE highlight_words(s, query_words, cls)

(***************************************************************************)
(* mcp_client.py: get_chunks, get_chunks_with_fallback, get_relevant_chunks *)
(*                                                                         *)
(* The content of a record is a string of characters, as the highlighter   *)
(* reads it; the other fields are kept as whole strings.                   *)
(***************************************************************************)
\* dict.get(key, default)
get(d, key, default) == IF key \in DOMAIN d THEN d[key] ELSE default

\* The environment is a function from the names of the variables that are
\* set to their values. os.getenv(name) gives the value of a variable that
\* is set and None of one that is not; `not os.getenv(name)` holds of None
\* and of the empty string.
not_getenv(env, name) == name \notin DOMAIN env \/ env[name] = <<>>

url_not_found == "ValueError: BWAI_MCP_SERVER_URL not found in environment variables"

mcp_suffix == <<"/", "m", "c", "p", "/">>

health_suffix == <<"/", "h", "e", "a", "l", "t", "h">>

\* MCPClient(): __init__ raises when the server URL is not configured, and
\* else sets the three fields of the instance.
MCPClient(env) ==
    IF not_getenv(env, "BWAI_MCP_SERVER_URL")
    THEN [raised |-> TRUE, error |-> url_not_found, self |-> <<>>]
    ELSE LET server_url == env["BWAI_MCP_SERVER_URL"]
         IN  [raised |-> FALSE, error |-> "none",
              self |-> <<[server_url      |-> server_url,
                          mcp_endpoint    |-> rstrip(server_url, {"/"}) \o mcp_suffix,
                          health_endpoint |-> rstrip(server_url, {"/"}) \o health_suffix]>>]

\* The values of 'relevance' that are floats; f"{score:.2f}" raises for
\* any other.
FloatScores == {"0.0", "0.5", "1.0"}

\* str(n) for a natural number n.
digit_chars == <<"0", "1", "2", "3", "4", "5", "6", "7", "8", "9">>

RECURSIVE str_int(_)
str_int(n) ==
    IF n < 10 THEN <<digit_chars[n + 1]>>
    ELSE str_int(n \div 10) \o <<digit_chars[(n % 10) + 1]>>

\* seq[:k]
slice_to(seq, k) ==
    IF k >= 0
    THEN SubSeq(seq, 1, IF k < Len(seq) THEN k ELSE Len(seq))
    ELSE SubSeq(seq, 1, IF Len(seq) + k > 0 THEN Len(seq) + k ELSE 0)

\* One entry of the 'chunks' list as get_chunks normalizes it.
normalized_chunk(chunk) ==
    IF chunk.type = "dict"
    THEN [content |-> get(chunk.items, "text", <<>>),
          source  |-> <<get(chunk.items, "workshop", "Unknown"), " - ",
                        get(chunk.items, "timestamp", "Unknown")>>,
          score   |-> get(chunk.items, "relevance", "0.0"),
          speaker |-> get(chunk.items, "speaker", "Unknown")]
    ELSE [content |-> chunk.value,
          source  |-> <<"unknown">>,
          score   |-> "0.0",
          speaker |-> "Unknown"]

failed_prefix ==
    <<"F", "a", "i", "l", "e", "d", " ", "t", "o", " ", "r", "e", "t", "r", "i", "e",
      "v", "e", " ", "c", "h", "u", "n", "k", "s", ":", " ">>

\* get_chunks, given how the tool call ended: it raises when the call
\* raised, and else returns the normalized entries of result.data['chunks']
\* (of an empty list when the key is missing).
get_chunks(outcome) ==
    IF outcome.raises
    THEN [raised |-> TRUE, error |-> failed_prefix \o outcome.error, chunks |-> <<>>]
    ELSE LET chunks_data == get(outcome.data, "chunks", <<>>)
         IN  [raised |-> FALSE, error |-> <<>>,
              chunks |-> [i \in DOMAIN chunks_data |-> normalized_chunk(chunks_data[i])]]

placeholder_prefix ==
    <<"[", "M", "C", "P", " ", "S", "e", "r", "v", "e", "r", " ", "U", "n", "a", "v",
      "a", "i", "l", "a", "b", "l", "e", "]", " ", "T", "h", "i", "s", " ", "i", "s",
      " ", "a", " ", "p", "l", "a", "c", "e", "h", "o", "l", "d", "e", "r", " ", "r",
      "e", "s", "u", "l", "t", " ", "f", "o", "r", " ", "t", "h", "e", " ", "q", "u",
      "e", "r", "y", ":", " ", "'">>

placeholder_suffix ==
    <<"'", ".", " ", "T", "h", "e", " ", "M", "C", "P", " ", "s", "e", "r", "v", "e",
      "r", " ", "c", "o", "u", "l", "d", " ", "n", "o", "t", " ", "b", "e", " ", "r",
      "e", "a", "c", "h", "e", "d", ".">>

error_response ==
    <<"[", "E", "r", "r", "o", "r", " ", "R", "e", "s", "p", "o", "n", "s", "e", "]",
      " ", "U", "n", "a", "b", "l", "e", " ", "t", "o", " ", "r", "e", "t", "r", "i",
      "e", "v", "e", " ", "r", "e", "a", "l", " ", "c", "h", "u", "n", "k", "s", " ",
      "f", "r", "o", "m", " ", "t", "h", "e", " ", "M", "C", "P", " ", "s", "e", "r",
      "v", "e", "r", ".", " ", "P", "l", "e", "a", "s", "e", " ", "c", "h", "e", "c",
      "k", " ", "s", "e", "r", "v", "e", "r", " ", "c", "o", "n", "n", "e", "c", "t",
      "i", "v", "i", "t", "y", " ", "a", "n", "d", " ", "t", "r", "y", " ", "a", "g",
      "a", "i", "n", ".">>

debug_prefix ==
    <<"[", "D", "e", "b", "u", "g", " ", "I", "n", "f", "o", "]", " ", "O", "r", "i",
      "g", "i", "n", "a", "l", " ", "q", "u", "e", "r", "y", ":", " ", "'">>

debug_middle ==
    <<"'", ",", " ", "R", "e", "q", "u", "e", "s", "t", "e", "d", " ", "t", "o", "p",
      "_", "k", ":", " ">>

debug_suffix ==
    <<".", " ", "E", "r", "r", "o", "r", ":", " ">>

placeholder_results(q, k, e) ==
    <<[content |-> placeholder_prefix \o q \o placeholder_suffix,
       source  |-> <<"fallback_placeholder.txt">>,
       score   |-> "0.0",
       speaker |-> "System"],
      [content |-> error_response,
       source  |-> <<"error_fallback.txt">>,
       score   |-> "0.0",
       speaker |-> "System"],
      [content |-> debug_prefix \o q \o debug_middle \o str_int(k) \o debug_suffix \o e,
       source  |-> <<"debug_info.txt">>,
       score   |-> "0.0",
       speaker |-> "System"]>>

\* get_chunks_with_fallback with the except branch left out: the error
\* of get_chunks is passed on.
get_chunks_without_fallback(q, k, outcome) == get_chunks(outcome)

get_chunks_with_fallback(q, k, outcome) ==
    LET got == get_chunks(outcome)
    IN  IF got.raised
        THEN [raised |-> FALSE, error |-> <<>>,
              chunks |-> slice_to(placeholder_results(q, k, got.error), k)]
        ELSE got

get_relevant_chunks(q, k, outcome) == get_chunks_with_fallback(q, k, outcome)

(***************************************************************************)
(* mcp_client.py: health_check, check_mcp_health                           *)
(*                                                                         *)
(* An object is a record with its type; a dict has its items, a Response   *)
(* its status code and body, an exception its message (str(e)) and the     *)
(* attributes set on it. These strings are kept whole.                     *)
(***************************************************************************)
\* response.raise_for_status(): HTTPStatusError, which carries the
\* response, for a status that is no 2xx.
is_success(resp) == resp.status_code \in 200..299

HTTPStatusError(resp) ==
    [type |-> "HTTPStatusError",
     message |-> IF resp.status_code \in 400..499
                 THEN "Client error for url" ELSE "Server error for url",
     attributes |-> [response |-> resp]]

\* response.json() raises for a body that is no JSON document.
JSONDecodeError ==
    [type |-> "JSONDecodeError",
     message |-> "Expecting value: line 1 column 1 (char 0)",
     attributes |-> [pos |-> 0]]

\* obj.get: a dict has the method, a Response has not.
has_get(obj) == obj.type = "dict"

no_attribute_get == "'Response' object has no attribute 'get'"

empty_dict == [type |-> "dict", items |-> [name \in {} |-> ""]]

\* The except branch of health_check for the exception e: it evaluates
\* getattr(e, 'response', {}).get('status_code', 'unknown').
health_check_failed(e) ==
    LET holder == get(e.attributes, "response", empty_dict)
    IN  IF has_get(holder)
        THEN [raised |-> FALSE, is_healthy |-> FALSE,
              data |-> [error |-> e.message,
                        status_code |-> get(holder.items, "status_code", "unknown")]]
        ELSE [raised |-> TRUE, is_healthy |-> FALSE,
              data |-> [error |-> no_attribute_get]]

\* health_check, given how client.get(self.health_endpoint) ended: with an
\* exception or with a response.
health_check(outcome) ==
    IF outcome.raises
    THEN health_check_failed(outcome.exception)
    ELSE IF ~is_success(outcome.response)
    THEN health_check_failed(HTTPStatusError(outcome.response))
    ELSE IF ~outcome.response.body.json
    THEN health_check_failed(JSONDecodeError)
    ELSE [raised |-> FALSE, is_healthy |-> TRUE, data |-> outcome.response.body]

check_mcp_health(outcome) == health_check(outcome)

(***************************************************************************)
(* app.py: create_results_display and the POST /query handler              *)
(***************************************************************************)
\* str(e) of the exception f"{result['score']:.2f}" raises.
format_error ==
    <<"U", "n", "k", "n", "o", "w", "n", " ", "f", "o", "r", "m", "a", "t", " ", "c",
      "o", "d", "e", " ", "'", "f", "'", " ", "f", "o", "r", " ", "o", "b", "j", "e",
      "c", "t", " ", "o", "f", " ", "t", "y", "p", "e", " ", "'", "s", "t", "r", "'">>

\* str(e) of re.error.
regex_error ==
    <<"m", "i", "s", "s", "i", "n", "g", " ", ")", ",", " ", "u", "n", "t", "e", "r",
      "m", "i", "n", "a", "t", "e", "d", " ", "s", "u", "b", "p", "a", "t", "t", "e",
      "r", "n", " ", "a", "t", " ", "p", "o", "s", "i", "t", "i", "o", "n", " ", "0">>

\* create_results_display: for each result in turn its content is
\* highlighted, then its card is built, which raises when the score is no
\* float. `seen` are the contents given to the highlighter so far.
RECURSIVE result_cards(_, _, _, _)
result_cards(q, rs, seen, done) ==
    IF rs = <<>>
    THEN [raised |-> FALSE, error |-> <<>>, cards |-> done, highlighted |-> seen]
    ELSE LET result == Head(rs)
             marked == highlight_query_terms_smart(result.content, q, highlight_class)
         IN  IF marked.raised
             THEN [raised |-> TRUE, error |-> regex_error, cards |-> <<>>,
                   highlighted |-> Append(seen, result.content)]
             ELSE IF result.score \notin FloatScores
             THEN [raised |-> TRUE, error |-> format_error, cards |-> <<>>,
                   highlighted |-> Append(seen, result.content)]
             ELSE result_cards(q, Tail(rs), Append(seen, result.content),
                               Append(done, [content |-> marked.ret,
                                             score   |-> result.score,
                                             speaker |-> result.speaker,
                                             source  |-> result.source]))

create_results_display(q, k, rs) == result_cards(q, rs, <<>>, <<>>)

error_prefix ==
    <<"E", "r", "r", "o", "r", " ", "r", "e", "t", "r", "i", "e", "v", "i", "n", "g",
      " ", "c", "h", "u", "n", "k", "s", ":", " ">>

error_result(e) ==
    <<[content |-> error_prefix \o e,
       source  |-> <<"error">>,
       score   |-> "0.0",
       speaker |-> "System"]>>

(***************************************************************************)
(* app.py: the GET /health handler                                         *)
(***************************************************************************)
\* health(), given what check_mcp_health did and the singleton.
health(check, client) ==
    IF check.raised
    THEN [status |-> "error",
          mcp_server |-> "error",
          message |-> "Health check failed: " \o check.data.error,
          mcp_server_response |-> [error |-> check.data.error]]
    ELSE [status |-> IF check.is_healthy THEN "healthy" ELSE "degraded",
          mcp_server |-> IF check.is_healthy THEN "connected" ELSE "disconnected",
          message |-> "Application is running"
                      \o (IF check.is_healthy THEN " and MCP server is reachable"
                          ELSE " but MCP server is unreachable"),
          mcp_server_url |-> client.server_url,
          mcp_health_endpoint |-> client.health_endpoint,
          mcp_server_response |-> check.data]

(***************************************************************************)
(* Inputs.                                                                 *)
(***************************************************************************)
SeqsUpTo(S, n) == UNION {[1..k -> S] : k \in 0..n}

\* The docstring examples of extract_query_words.
WhatIsAnAgent ==
    <<"W", "h", "a", "t", " ", "i", "s", " ", "a", "n", " ",
      "a", "g", "e", "n", "t", "?">>

FineTuning == <<"f", "i", "n", "e", "-", "t", "u", "n", "i", "n", "g">>

ExtractAlphabet == {"a", "n", "B", " ", "\t", "-", "?", "'"}

ExtractQueries ==
    SeqsUpTo(ExtractAlphabet, MaxExtractLen) \cup {WhatIsAnAgent, FineTuning}

\* The pieces the texts are made of: a lowercase and an uppercase word, a
\* stop word, a space, a word after an opening quotation mark and a word
\* with a full stop inside.
TextAtoms ==
    {<<"b">>, <<"B">>, <<"a">>, <<" ">>, <<LDQUO, "b">>, <<"b", ".", "b">>}

\* The words the queries are made of: a word, a stop word, punctuation
\* alone, words with a regex-special character inside, a word after an
\* opening quotation mark and the tag name of the markup.
QueryWords ==
    {<<"b">>, <<"a">>, <<".">>, <<"b", ".", "b">>, <<"b", "(", "b">>,
     <<LDQUO, "b">>, <<"m", "a", "r", "k">>}

Texts == {Flatten(x) : x \in SeqsUpTo(TextAtoms, MaxTextLen)}

\* Queries of up to MaxQueryWords words, one space between two words.
Queries == {join(x, " ") : x \in SeqsUpTo(QueryWords, MaxQueryWords)}

\* The questions asked: a word, a stop word before a word of the
\* placeholder texts, and two words of the chunk texts.
Questions == {<<"b">>, <<"a", " ", "q", "u", "e", "r", "y">>,
              <<"A", "g", "e", "n", "t", " ", "t", "a", "s", "k">>}

\* Entries of the 'chunks' list of a reply: two full entries, an entry
\* with none of the keys read, an entry whose relevance is no number, and
\* an entry that is a string and no dictionary.
ChunkEntries ==
    {[type |-> "dict",
      items |-> [text |-> <<"T", "h", "e", " ", "A", "g", "e", "n", "t", " ", "b">>, workshop |-> "WS6",
                 timestamp |-> "Chunk 5", speaker |-> "Unknown", relevance |-> "1.0"]],
     [type |-> "dict",
      items |-> [text |-> <<"a", " ", "t", "a", "s", "k">>, workshop |-> "WS2",
                 timestamp |-> "Chunk 1", speaker |-> "Host", relevance |-> "0.5"]],
     [type |-> "dict", items |-> [position |-> "4"]],
     [type |-> "dict", items |-> [text |-> <<"b">>, relevance |-> "high"]],
     [type |-> "str", value |-> <<"a", "g", "e", "n", "t">>]}

\* The data of a reply: with a 'chunks' list, or without the key.
ReplyData ==
    {[chunks |-> c, total_chunks |-> Len(c)] : c \in SeqsUpTo(ChunkEntries, MaxChunks)}
    \cup {[total_chunks |-> 0]}

\* str(e) of the exceptions the tool call raises: the connection fails,
\* the call times out, or the result holds no data to read.
CallErrors ==
    {<<"A", "l", "l", " ", "c", "o", "n", "n", "e", "c", "t", "i", "o", "n", " ", "a", "t", "t", "e", "m", "p", "t", "s", " ", "f", "a", "i", "l", "e", "d">>,
     <<"t", "i", "m", "e", "d", " ", "o", "u", "t">>,
     <<"n", "o", " ", "d", "a", "t", "a">>}


\* The value of BWAI_MCP_SERVER_URL when it names a server.
ServerUrls == {<<"h", "t", "t", "p", ":", "/", "/", "s", "/">>}

\* A process environment without any variable.
NoVariables == [name \in {} |-> <<>>]

\* The environments the application is started in: the variable is not
\* set, is set to the empty string, or is set to a URL.
Environments ==
    {NoVariables, [BWAI_MCP_SERVER_URL |-> <<>>]}
    \cup {[BWAI_MCP_SERVER_URL |-> u] : u \in ServerUrls}

\* The ways the request to the server's health endpoint ends: a response
\* with a status and a body that is a JSON document or is not, or an
\* exception of the HTTP client (the connection fails or times out).
StatusCodes == {200, 201, 404, 500, 503}

HealthBodies ==
    {[json |-> TRUE, value |-> "{'status': 'healthy'}"],
     [json |-> TRUE, value |-> "[]"],
     [json |-> FALSE, value |-> "<html>Bad Gateway</html>"],
     [json |-> FALSE, value |-> ""]}

HealthResponses ==
    {[type |-> "Response", status_code |-> c, body |-> b] :
        c \in StatusCodes, b \in HealthBodies}

RequestErrors ==
    {[type |-> "ConnectError", message |-> "All connection attempts failed",
      attributes |-> [request |-> "GET"]],
     [type |-> "ConnectTimeout", message |-> "",
      attributes |-> [request |-> "GET"]],
     [type |-> "ReadTimeout", message |-> "",
      attributes |-> [request |-> "GET"]]}

(***************************************************************************)
(* The highlighter as a state machine: a text and a query are given, and   *)
(* one of the functions is called on them.                                 *)
(***************************************************************************)
NoCall ==
    /\ call = "none"
    /\ ret = <<>>
    /\ words = <<>>
    /\ spans = <<>>
    /\ raised = FALSE

\* The default of the parameter top_k of the handler.
default_top_k == 3

\* No tool call has ended yet, and get_chunks has given nothing.
NoReply == [raises |-> FALSE, data |-> <<>>, error |-> <<>>]

NoChunks == [raised |-> FALSE, error |-> <<>>, chunks |-> <<>>]

NoRequest ==
    /\ pc = "idle"
    /\ question = <<>>
    /\ top_k = default_top_k
    /\ tool = "none"
    /\ reply = NoReply
    /\ fetched = NoChunks
    /\ results = <<>>
    /\ error = <<>>
    /\ highlighted = <<>>
    /\ cards = <<>>
    /\ response = "none"

\* The modules of the application are not imported yet.
NotStarted ==
    /\ app = "not_started"
    /\ mcp_client = <<>>
    /\ fault = "none"

NoResponse == [type |-> "Response", status_code |-> 0, body |-> [json |-> FALSE, value |-> ""]]

NoException == [type |-> "none", message |-> "", attributes |-> [name \in {} |-> ""]]

NoProbe == [raises |-> FALSE, response |-> NoResponse, exception |-> NoException]

NoCheck == [raised |-> FALSE, is_healthy |-> FALSE, data |-> [error |-> "none"]]

NoHealthRequest ==
    /\ hpc = "idle"
    /\ probe = NoProbe
    /\ checked = NoCheck
    /\ health_response = [status |-> "none"]

\* The highlighter is called as a library: no application runs.
NoApplication ==
    /\ environ = NoVariables
    /\ NotStarted
    /\ NoRequest
    /\ NoHealthRequest

Init ==
    /\ text \in Texts
    /\ query \in Queries
    /\ NoCall
    /\ NoApplication

InitExtract ==
    /\ text = <<>>
    /\ query \in ExtractQueries
    /\ NoCall
    /\ NoApplication

Returned(name, r) ==
    /\ call' = name
    /\ ret' = r.ret
    /\ spans' = r.spans
    /\ raised' = r.raised
    /\ UNCHANGED <<text, query, words>>
    /\ UNCHANGED <<webvars, appvars, healthvars>>

CallExtract ==
    /\ call = "none"
    /\ call' = "extract_query_words"
    /\ words' = extract_query_words(query)
    /\ UNCHANGED <<text, query, ret, spans, raised>>
    /\ UNCHANGED <<webvars, appvars, healthvars>>

CallSmart ==
    /\ call = "none"
    /\ Returned("highlight_query_terms_smart",
                highlight_query_terms_smart(text, query, highlight_class))

CallPlain ==
    /\ call = "none"
    /\ Returned("highlight_query_terms",
                highlight_query_terms(text, query, highlight_class))

\* The string highlight_query_terms_smart returned is given to it again,
\* with the same query.
CallSmartAgain ==
    /\ call = "highlight_query_terms_smart"
    /\ ~raised
    /\ Returned("highlight_query_terms_smart again",
                highlight_query_terms_smart(ret, query, highlight_class))

Next == CallSmart \/ CallPlain

Spec == Init /\ [][Next]_vars

NextAgain == CallSmart \/ CallSmartAgain

SpecAgain == Init /\ [][NextAgain]_vars

NextExtract == CallExtract

SpecExtract == InitExtract /\ [][NextExtract]_vars

(***************************************************************************)
(* A POST /query request, step by step: the handler awaits the tool call;  *)
(* when the call has returned or raised, get_relevant_chunks gives the     *)
(* records; they are displayed; an exception on the way is caught and an   *)
(* error record is displayed instead.                                      *)
(***************************************************************************)
InitWeb ==
    /\ text = <<>>
    /\ query = <<>>
    /\ NoCall
    /\ environ \in Environments
    /\ NotStarted
    /\ NoRequest
    /\ NoHealthRequest

\* app.py is imported: its line 4 imports mcp_client, whose last statement
\* but the convenience functions constructs the singleton. An exception of
\* the constructor is caught nowhere and ends the import.
Import ==
    /\ app = "not_started"
    /\ LET made == MCPClient(environ)
       IN  /\ app' = IF made.raised THEN "crashed" ELSE "running"
           /\ fault' = IF made.raised THEN made.error ELSE fault
           /\ mcp_client' = made.self
    /\ UNCHANGED environ
    /\ UNCHANGED <<hlvars, webvars, healthvars>>

\* GET /: the page with the query form and the empty results area.
GetIndex ==
    /\ app = "running"
    /\ pc = "idle"
    /\ response' = "page"
    /\ UNCHANGED <<pc, question, top_k, tool, reply, fetched, results, error,
                   highlighted, cards>>
    /\ UNCHANGED <<hlvars, appvars, healthvars>>

\* POST /query arrives and the handler calls the tool get_relevant_chunks.
PostQuery ==
    /\ app = "running"
    /\ pc = "idle"
    /\ \E q \in Questions, k \in 1..MaxTopK :
        /\ question' = q
        /\ top_k' = k
    /\ pc' = "call_tool"
    /\ response' = "none"
    /\ UNCHANGED <<tool, reply, fetched, results, error, highlighted, cards>>
    /\ UNCHANGED <<hlvars, appvars, healthvars>>

\* results = await get_relevant_chunks(question, top_k), the tool call
\* having ended with `outcome`.
Fetched(outcome) ==
    LET got == get_relevant_chunks(question, top_k, outcome)
    IN  /\ tool' = IF outcome.raises THEN "raised" ELSE "returned"
        /\ reply' = outcome
        /\ fetched' = get_chunks(outcome)
        /\ results' = got.chunks
        /\ error' = got.error
        /\ pc' = IF got.raised THEN "except" ELSE "display"
        /\ UNCHANGED <<question, top_k, highlighted, cards, response>>
        /\ UNCHANGED <<hlvars, appvars, healthvars>>

\* The tool call returns a result.
CallToolReturns ==
    /\ pc = "call_tool"
    /\ \E data \in ReplyData : Fetched([raises |-> FALSE, data |-> data, error |-> <<>>])

\* The tool call raises.
CallToolRaises ==
    /\ pc = "call_tool"
    /\ \E e \in CallErrors : Fetched([raises |-> TRUE, data |-> <<>>, error |-> e])

\* return create_results_display(question, top_k, results)
Display ==
    /\ pc = "display"
    /\ LET shown == create_results_display(question, top_k, results)
       IN  /\ highlighted' = shown.highlighted
           /\ cards' = shown.cards
           /\ error' = shown.error
           /\ pc' = IF shown.raised THEN "except" ELSE "responded"
           /\ response' = IF shown.raised THEN response ELSE "results"
    /\ UNCHANGED <<question, top_k, tool, reply, fetched, results>>
    /\ UNCHANGED <<hlvars, appvars, healthvars>>

\* except Exception as e: return create_results_display(question, top_k,
\* error_result)
DisplayError ==
    /\ pc = "except"
    /\ LET shown == create_results_display(question, top_k, error_result(error))
       IN  /\ highlighted' = highlighted \o shown.highlighted
           /\ cards' = shown.cards
           /\ response' = IF shown.raised THEN "unhandled" ELSE "results"
    /\ results' = error_result(error)
    /\ pc' = "responded"
    /\ UNCHANGED <<question, top_k, tool, reply, fetched, error>>
    /\ UNCHANGED <<hlvars, appvars, healthvars>>

NextWeb ==
    \/ Import
    \/ GetIndex
    \/ PostQuery
    \/ CallToolReturns
    \/ CallToolRaises
    \/ Display
    \/ DisplayError

SpecWeb == InitWeb /\ [][NextWeb]_vars

(***************************************************************************)
(* GET /health requests, step by step: the handler awaits health_check,    *)
(* which awaits the request to the server's health endpoint; when the      *)
(* request has ended, health_check returns or raises; the handler answers. *)
(* health_response keeps the last answer while the next request runs.      *)
(***************************************************************************)
InitHealth == InitWeb

\* GET /health arrives.
GetHealth ==
    /\ app = "running"
    /\ hpc \in {"idle", "responded"}
    /\ hpc' = "await"
    /\ probe' = NoProbe
    /\ checked' = NoCheck
    /\ UNCHANGED health_response
    /\ UNCHANGED <<hlvars, webvars, appvars>>

\* mcp_healthy, mcp_response = await check_mcp_health(), the request to
\* the health endpoint having ended with `outcome`.
Probed(outcome) ==
    /\ probe' = outcome
    /\ checked' = check_mcp_health(outcome)
    /\ hpc' = "checked"
    /\ UNCHANGED health_response
    /\ UNCHANGED <<hlvars, webvars, appvars>>

\* The server answers the request.
HealthRequestReturns ==
    /\ hpc = "await"
    /\ \E r \in HealthResponses :
        Probed([raises |-> FALSE, response |-> r, exception |-> NoException])

\* The request raises: no connection, or no answer in time.
HealthRequestRaises ==
    /\ hpc = "await"
    /\ \E e \in RequestErrors :
        Probed([raises |-> TRUE, response |-> NoResponse, exception |-> e])

\* The handler returns its dictionary: from the try block when
\* check_mcp_health returned, from the except block when it raised.
HealthResponds ==
    /\ hpc = "checked"
    /\ health_response' = health(checked, mcp_client[1])
    /\ hpc' = "responded"
    /\ UNCHANGED <<probe, checked>>
    /\ UNCHANGED <<hlvars, webvars, appvars>>

NextHealth ==
    \/ Import
    \/ GetHealth
    \/ HealthRequestReturns
    \/ HealthRequestRaises
    \/ HealthResponds

SpecHealth == InitHealth /\ [][NextHealth]_vars

(***************************************************************************)
(* What the claims speak of, stated without the functions above.           *)
(***************************************************************************)
IsHighlightCall == call \in {"highlight_query_terms_smart", "highlight_query_terms"}

\* A hyphen or a whitespace character ends a token of the query.
IsSeparator(c) == c = "-" \/ c \in whitespace

\* Where the tokens of q start: at a non-separator with a separator or the
\* start of q before it.
TokenStarts(q) ==
    {i \in DOMAIN q : ~IsSeparator(q[i]) /\ (i = 1 \/ IsSeparator(q[i - 1]))}

\* The last position of the token that starts at i.
TokenEnd(q, i) ==
    CHOOSE j \in i..Len(q) :
        /\ \A k \in i..j : ~IsSeparator(q[k])
        /\ (j = Len(q) \/ IsSeparator(q[j + 1]))

\* The token q[i..j] without its leading and trailing punctuation, lowercased.
Normalized(q, i, j) ==
    LET keep == {k \in i..j : q[k] \notin punctuation}
    IN  IF keep = {} THEN <<>>
        ELSE LET first == CHOOSE k \in keep : \A m \in keep : k <= m
                 last  == CHOOSE k \in keep : \A m \in keep : k >= m
             IN  [n \in 1..(last - first + 1) |-> lower_char(q[first + n - 1])]

\* The members of the set S of positions of s, in ascending order.
Ascending(s, S) == SelectSeq([i \in DOMAIN s |-> i], LAMBDA i : i \in S)

\* The normalized tokens of q, in query order, the empty ones left out.
Tokens(q) ==
    LET starts == Ascending(q, TokenStarts(q))
        all    == [n \in DOMAIN starts |-> Normalized(q, starts[n], TokenEnd(q, starts[n]))]
    IN  SelectSeq(all, LAMBDA w : w # <<>>)

\* The terms of q: its normalized tokens that are no stop words.
Terms(q) == SelectSeq(Tokens(q), LAMBDA w : w \notin stop_words)

\* s[i..j] is delimited on both sides by a non-word character or an edge of s.
Delimited(s, i, j) ==
    /\ (i = 1 \/ ~IsWordChar(s[i - 1]))
    /\ (j = Len(s) \/ ~IsWordChar(s[j + 1]))

\* s[i..j] is term, whatever the case of the letters.
OccursAt(s, term, i, j) ==
    /\ 1 <= i
    /\ j <= Len(s)
    /\ j - i + 1 = Len(term)
    /\ \A k \in 1..Len(term) : lower_char(s[i + k - 1]) = lower_char(term[k])

\* d is in s at position i.
IsAt(s, d, i) ==
    /\ i + Len(d) - 1 <= Len(s)
    /\ \A k \in 1..Len(d) : s[i + k - 1] = d[k]

OpenTag == open_tag(highlight_class)

\* Where the opening and the closing tags of s start.
Opens(s) == {i \in DOMAIN s : s[i] = "<" /\ IsAt(s, OpenTag, i)}

Closes(s) == {i \in DOMAIN s : s[i] = "<" /\ IsAt(s, close_tag, i)}

\* The positions of s that belong to an opening or a closing tag.
InTag(s) ==
    LET opens  == Opens(s)
        closes == Closes(s)
    IN  {i \in DOMAIN s :
            \/ \E o \in opens : o <= i /\ i < o + Len(OpenTag)
            \/ \E c \in closes : c <= i /\ i < c + Len(close_tag)}

\* s with every opening and closing tag deleted.
StripTags(s) ==
    LET tags == InTag(s)
        kept == SelectSeq([i \in DOMAIN s |-> i], LAMBDA i : i \notin tags)
    IN  [n \in DOMAIN kept |-> s[kept[n]]]

\* The strings s holds between an opening tag and the next closing tag.
Wrapped(s) ==
    LET opens  == Ascending(s, Opens(s))
        closes == Closes(s)
        EndOf(o) == IF \E c \in closes : c > o
                    THEN (CHOOSE c \in closes : c > o /\ \A d \in closes : d > o => c <= d) - 1
                    ELSE Len(s)
    IN  [n \in DOMAIN opens |-> SubSeq(s, opens[n] + Len(OpenTag), EndOf(opens[n]))]

\* How many <mark> elements of s are open at position i: those started up
\* to i less those closed up to i.
MarkStart == <<"<", "m", "a", "r", "k", " ">>

OpenMarksAt(s, i) ==
    Cardinality({o \in 1..i : IsAt(s, MarkStart, o)})
        - Cardinality({c \in 1..i : IsAt(s, close_tag, c)})

C3_WholeWordOnly ==
    IsHighlightCall =>
        \A k \in DOMAIN spans : Delimited(text, spans[k].start, spans[k].stop - 1)

\* C4: every whole-word occurrence in the text of every term of the query,
\* whatever its case, lies inside a wrapped match, also when one term is a
\* part of another; stated for the terms that begin and end with a word
\* character, as the terms the claim names do.
C4_EveryOccurrenceWrapped ==
    call = "highlight_query_terms_smart" =>
        \A n \in DOMAIN Terms(query) : \A i \in DOMAIN text :
            LET term == Terms(query)[n]
                j    == i + Len(term) - 1
            IN  (/\ IsWordChar(term[1])
                 /\ IsWordChar(term[Len(term)])
                 /\ OccursAt(text, term, i, j)
                 /\ Delimited(text, i, j))
                    => \E k \in DOMAIN spans : spans[k].start <= i /\ j < spans[k].stop

\* C5: the string returned is the text with non-overlapping matches, left
\* to right, each wrapped as <mark class="highlight">S</mark> with S the
\* matched part of the text as it was; without the tags it is the text.
C5_OnlyTagsInserted ==
    (IsHighlightCall /\ ~raised) =>
        /\ \A k \in DOMAIN spans :
             /\ 1 <= spans[k].start
             /\ spans[k].start < spans[k].stop
             /\ spans[k].stop <= Len(text) + 1
             /\ k > 1 => spans[k - 1].stop <= spans[k].start
        /\ StripTags(ret) = text
        /\ Wrapped(ret)
             = [k \in DOMAIN spans |-> SubSeq(text, spans[k].start, spans[k].stop - 1)]

\* The tag name is a term of the query, and an uppercase word was wrapped.
C5_Witness ==
    /\ call = "highlight_query_terms_smart"
    /\ <<"m", "a", "r", "k">> \in Range(Terms(query))
    /\ Len(spans) = 1
    /\ "B" \in Range(Wrapped(ret)[1])

\* C6: whatever regex-special characters the query holds, the highlighters
\* do not raise, and each match is, letter case aside, a term of the query
\* character for character.
C6_LiteralMatch ==
    IsHighlightCall =>
        /\ ~raised
        /\ LET terms == Range(Terms(query))
           IN  \A k \in DOMAIN spans :
                   lower(SubSeq(text, spans[k].start, spans[k].stop - 1)) \in terms

\* A term with a full stop inside was wrapped, and the query held another
\* term with an opening parenthesis inside.
C6_Witness ==
    /\ call = "highlight_query_terms_smart"
    /\ <<"b", "(", "b">> \in Range(Terms(query))
    /\ \E k \in DOMAIN spans : "." \in Range(SubSeq(text, spans[k].start, spans[k].stop - 1))

\* C7: highlighting the highlighted text again with the same query nests
\* no <mark> element in another.
C7_NoSecondLayer ==
    call = "highlight_query_terms_smart again" =>
        \A i \in DOMAIN ret : OpenMarksAt(ret, i) <= 1

\* C8: highlight_query_terms matches the tokens of the query with the stop
\* words kept, highlight_query_terms_smart matches them without.
C8_PlainKeepsStopWords ==
    call = "highlight_query_terms" =>
        ret = IF text = <<>> \/ Tokens(query) = <<>>
              THEN text
              ELSE highlight_words(text, Tokens(query), highlight_class).ret

\* The content of each record of rs, in order.
Contents(rs) == [i \in DOMAIN rs |-> rs[i].content]

\* A record labelled as a fallback or an error record.
IsLabelled(r) ==
    /\ r.score = "0.0"
    /\ r.speaker = "System"
    /\ r.source \in {<<"fallback_placeholder.txt">>, <<"error_fallback.txt">>,
                     <<"debug_info.txt">>, <<"error">>}

\* C9: a request with top_k = N gives at most N chunks to the highlighter,
\* whatever the server replied and whether or not the call failed, and the
\* chunks are highlighted in the order the retrieval client returned them.
C9_AtMostTopKInOrder ==
    pc = "responded" =>
        /\ Len(highlighted) <= top_k
        /\ error = <<>> => highlighted = Contents(results)

\* C10: when the tool call fails, get_relevant_chunks raises nothing and
\* returns labelled fallback records (score 0.0, speaker System, a fallback
\* source); and the handler always responds with a results display, whose
\* cards are those of the chunks retrieved or of labelled records.
C10_FallbackOnFailure ==
    /\ tool = "raised" =>
         /\ pc # "except"
         /\ results # <<>>
         /\ \A i \in DOMAIN results : IsLabelled(results[i])
    /\ pc = "responded" =>
         /\ response = "results"
         /\ Len(cards) = Len(results)
         /\ \A i \in DOMAIN cards :
              /\ cards[i].score = results[i].score
              /\ cards[i].speaker = results[i].speaker
              /\ cards[i].source = results[i].source
              /\ StripTags(cards[i].content) = results[i].content
         /\ \/ tool = "returned" /\ error = <<>>
            \/ \A i \in DOMAIN results : IsLabelled(results[i])

\* The call raised, and the three placeholder records were displayed, a
\* word of the question wrapped in the first.
C10_Witness ==
    /\ tool = "raised"
    /\ pc = "responded"
    /\ response = "results"
    /\ Len(cards) = 3
    /\ cards[1].content # results[1].content

\* A payload get_chunks cannot read as the documented structure: it has no
\* 'chunks' key, or an entry of its 'chunks' list is no dictionary.
Malformed(data) ==
    \/ "chunks" \notin DOMAIN data
    \/ \E i \in DOMAIN data.chunks : data.chunks[i].type # "dict"

\* C11: get_chunks fails closed: whenever the tool call raised (network
\* error, timeout) or the payload it returned is malformed (no 'chunks'
\* key, or a 'chunks' entry that is no dictionary), get_chunks raises and
\* returns no chunk list.
C11_FailsClosed ==
    (tool # "none" /\ (reply.raises \/ Malformed(reply.data))) =>
        /\ fetched.raised
        /\ fetched.chunks = <<>>

\* BWAI_MCP_SERVER_URL is not set, or is set to the empty string.
MissingConfiguration == not_getenv(environ, "BWAI_MCP_SERVER_URL")

\* C12: with BWAI_MCP_SERVER_URL missing the application still starts and
\* no unhandled fault occurs at import, at startup or on a request; what a
\* POST /query then displays are labelled placeholder or error records.
C12_MissingUrlIsDegradedOnly ==
    MissingConfiguration =>
        /\ app # "crashed"
        /\ fault = "none"
        /\ response # "unhandled"
        /\ pc = "responded" => \A i \in DOMAIN results : IsLabelled(results[i])

\* The request to the health endpoint succeeded: it raised nothing, the
\* status is a 2xx and the body is a JSON document.
Succeeded(outcome) ==
    /\ ~outcome.raises
    /\ outcome.response.status_code \in 200..299
    /\ outcome.response.body.json

\* C13: health_check never raises; it returns (True, body) when the
\* health request succeeded and (False, error info) for every failure
\* (connection error, timeout, non-2xx status, non-JSON body); so GET /health
\* answers "healthy" exactly when the request succeeded, and "degraded" with
\* mcp_server "disconnected" for every failure, never its "error" branch.
C13_HealthCheckNeverRaises ==
    /\ hpc \in {"checked", "responded"} =>
         /\ ~checked.raised
         /\ checked.is_healthy <=> Succeeded(probe)
         /\ Succeeded(probe) => checked.data = probe.response.body
    /\ hpc = "responded" =>
         /\ health_response.status # "error"
         /\ health_response.status = "healthy" <=> Succeeded(probe)
         /\ ~Succeeded(probe) =>
              /\ health_response.status = "degraded"
              /\ health_response.mcp_server = "disconnected"

====
